---------------------------- MODULE Spec2Model ----------------------------
(***************************************************************************)
(* A model of smtfmt (src/smtfmt.py): the parser combinators, the grammar  *)
(* built on them, the layout engine and format_lisp.                       *)
(*                                                                         *)
(* Text is a sequence of one-character strings.  A Python value is a       *)
(* tagged record [t, v]: None, an int, a str (a text) or a list (a         *)
(* sequence of values), so that the shape probes of the formatter          *)
(* (isatom, issexpr, iscomment, len) see exactly what the Python code      *)
(* sees.  A parser is named by a string and run by Apply; its result is    *)
(* the triple (success, remaining input, value) of the source.             *)
(***************************************************************************)
EXTENDS Integers, Sequences, FiniteSets

VARIABLES
    source,   \* the text given to the first call of format_lisp
    input,    \* the text given to the current call of format_lisp
    pass,     \* 1: formatting source, 2: formatting the first call's output
    pc,       \* "start"; "parse": in program()'s loop; "returned"; "raised"
    cur_s,    \* zeroOrMore's cursor: the input not consumed yet
    values,   \* zeroOrMore's list of the values parsed so far
    output,   \* the text format_lisp returned (empty before, and on a raise)
    message,  \* the FormattingException's message (empty unless raised)
    terms1,   \* the terms the first call parsed
    out1      \* the text the first call returned

vars == <<source, input, pass, pc, cur_s, values, output, message, terms1, out1>>

----------------------------------------------------------------------------
(* Program constants *)

SMALL_EXPRESSION_MAX_LENGTH == 80

SPACES_PER_INDENT == 2

----------------------------------------------------------------------------
(* Character classes of the regular expressions *)

Whitespace == {" ", "\t", "\n", "\r", "\f"}

Blanks == {" ", "\t"}

Digits == {"0", "1", "2", "3", "4", "5", "6", "7", "8", "9"}

Letters ==
    {"a", "b", "c", "d", "e", "f", "g", "h", "i", "j", "k", "l", "m",
     "n", "o", "p", "q", "r", "s", "t", "u", "v", "w", "x", "y", "z",
     "A", "B", "C", "D", "E", "F", "G", "H", "I", "J", "K", "L", "M",
     "N", "O", "P", "Q", "R", "S", "T", "U", "V", "W", "X", "Y", "Z"}

HexDigits ==
    Digits \cup {"a", "b", "c", "d", "e", "f", "A", "B", "C", "D", "E", "F"}

BinDigits == {"0", "1"}

SymbolChars ==
    {"+", "-", "*", "=", "%", "?", "!", ".", "$", "_", "~", "&", "^", "<",
     ">", "@"} \cup Digits \cup Letters

----------------------------------------------------------------------------
(* Python values *)

None == [t |-> "none", v |-> 0]

IntV(n) == [t |-> "int", v |-> n]

StrV(s) == [t |-> "str", v |-> s]

ListV(xs) == [t |-> "list", v |-> xs]

\* Python's truth value of x, as seq's `if value:` takes it.
Truthy(x) ==
    CASE x.t = "none" -> FALSE
      [] x.t = "int"  -> x.v # 0
      [] OTHER        -> x.v # <<>>

----------------------------------------------------------------------------
(* Text helpers *)

\* The character at position i, or "" past the end of s.
At(s, i) == IF i >= 1 /\ i <= Len(s) THEN s[i] ELSE ""

Drop(s, n) == SubSeq(s, n + 1, Len(s))

Min(S) == CHOOSE x \in S : \A y \in S : x <= y

Max(S) == CHOOSE x \in S : \A y \in S : x >= y

\* How many characters from position i on lie in C (neg: lie outside C):
\* the greedy match of [C]* (of [^C]*) at position i.
Span(s, i, C, neg) ==
    LET stops == {j \in i..Len(s) : (s[j] \in C) = neg}
    IN  IF stops = {} THEN Max({Len(s) - i + 1, 0}) ELSE Min(stops) - i

\* How many characters from position i backwards lie in C.
SpanBack(s, i, C) ==
    LET stops == {j \in 1..i : s[j] \notin C}
    IN  IF stops = {} THEN Max({i, 0}) ELSE i - Max(stops)

\* str.strip()
Strip(s) ==
    LET a == Span(s, 1, Whitespace, FALSE)
        b == SpanBack(s, Len(s), Whitespace)
    IN  IF a = Len(s) THEN <<>> ELSE SubSeq(s, a + 1, Len(s) - b)

\* str.isspace()
IsSpace(s) == s # <<>> /\ \A i \in 1..Len(s) : s[i] \in Whitespace

\* str.count(c)
Count(s, c) == Cardinality({i \in 1..Len(s) : s[i] = c})

\* c * n
Repeat(c, n) == [i \in 1..n |-> c]

----------------------------------------------------------------------------
(* Generic parser builders *)

Failure(s) == [succ |-> FALSE, rest |-> s, value |-> None]

\* regex(pat, func)(s): m is the length of the match of pat at the start of
\* s (-1: no match) and value is func(m).
regex(m, s, value) ==
    IF m >= 0
    THEN [succ |-> TRUE, rest |-> Drop(s, m), value |-> value]
    ELSE Failure(s)

RECURSIVE Apply(_, _)

RECURSIVE seqFrom(_, _, _, _, _)
seqFrom(parsers, i, s, cur, vals) ==
    IF i > Len(parsers)
    THEN [succ |-> TRUE, rest |-> cur, value |-> ListV(vals)]
    ELSE LET r == Apply(parsers[i], cur)
         IN  IF ~r.succ
             THEN Failure(s)
             ELSE seqFrom(parsers, i + 1, s, r.rest,
                          IF Truthy(r.value) THEN Append(vals, r.value) ELSE vals)

seq(parsers, s) == seqFrom(parsers, 1, s, s, <<>>)

RECURSIVE choiceFrom(_, _, _)
choiceFrom(parsers, i, s) ==
    IF i > Len(parsers)
    THEN Failure(s)
    ELSE LET r == Apply(parsers[i], s)
         IN  IF r.succ THEN r ELSE choiceFrom(parsers, i + 1, s)

choice(parsers, s) == choiceFrom(parsers, 1, s)

RECURSIVE zeroOrMoreFrom(_, _, _)
zeroOrMoreFrom(parser, cur, vals) ==
    LET r == Apply(parser, cur)
    IN  IF ~r.succ
        THEN [succ |-> TRUE, rest |-> cur, value |-> ListV(vals)]
        ELSE zeroOrMoreFrom(parser, r.rest, Append(vals, r.value))

zeroOrMore(parser, s) == zeroOrMoreFrom(parser, s, <<>>)

oneOrMore(parser, s) ==
    IF ~Apply(parser, s).succ THEN Failure(s) ELSE zeroOrMore(parser, s)

----------------------------------------------------------------------------
(* The patterns: the length of the match at the start of s, or -1 *)

\* ^\s*\(  and  ^\s*\)
re_paren(s, p) ==
    LET w == Span(s, 1, Whitespace, FALSE)
    IN  IF At(s, w + 1) = p THEN w + 1 ELSE -1

\* ^\s*;.*
re_comment(s) ==
    LET w == Span(s, 1, Whitespace, FALSE)
    IN  IF At(s, w + 1) = ";"
        THEN w + 1 + Span(s, w + 2, {"\n"}, TRUE)
        ELSE -1

\* ^([ \t]*;.*)?
re_raw_comment(s) ==
    LET w == Span(s, 1, Blanks, FALSE)
    IN  IF At(s, w + 1) = ";"
        THEN w + 1 + Span(s, w + 2, {"\n"}, TRUE)
        ELSE 0

\* One round of (\s*?\n): the position of the next line break when only
\* white space stands before it, or 0.
NextBreak(s, i) ==
    LET w == Span(s, i, Whitespace \ {"\n"}, FALSE)
    IN  IF At(s, i + w) = "\n" THEN i + w ELSE 0

\* ^(\s*?\n){2,}: <<end of the match, rounds matched>> from position i on.
RECURSIVE BlankRounds(_, _, _)
BlankRounds(s, i, n) ==
    LET j == NextBreak(s, i)
    IN  IF j = 0 THEN <<i - 1, n>> ELSE BlankRounds(s, j + 1, n + 1)

re_blankline(s) ==
    LET r == BlankRounds(s, 1, 0)
    IN  IF r[2] >= 2 THEN r[1] ELSE -1

\* (?:0|[1-9][0-9]*)
pat_numeral(s, i) ==
    IF At(s, i) = "0" THEN 1
    ELSE IF At(s, i) \in Digits \ {"0"}
         THEN 1 + Span(s, i + 1, Digits, FALSE)
         ELSE -1

\* (?:0|[1-9][0-9]*)\.[0-9]+
pat_decimal(s, i) ==
    LET n == pat_numeral(s, i)
        d == Span(s, i + n + 1, Digits, FALSE)
    IN  IF n >= 0 /\ At(s, i + n) = "." /\ d >= 1 THEN n + 1 + d ELSE -1

\* #x[0-9a-fA-F]+  and  #b[0-1]+
pat_radix(s, i, x, C) ==
    LET d == Span(s, i + 2, C, FALSE)
    IN  IF At(s, i) = "#" /\ At(s, i + 1) = x /\ d >= 1 THEN 2 + d ELSE -1

\* (?:""|[^"])*" from position j on: the position of the closing quote, or
\* -1.  The pair "" is tried first; when the rest then fails to match, the
\* repetition gives the pair back and the first quote closes the string.
RECURSIVE StringBody(_, _)
StringBody(s, j) ==
    IF j > Len(s) THEN -1
    ELSE IF s[j] = "\""
         THEN IF At(s, j + 1) = "\""
              THEN LET r == StringBody(s, j + 2)
                   IN  IF r >= 0 THEN r ELSE j
              ELSE j
         ELSE StringBody(s, j + 1)

\* "(?:""|[^"])*"
pat_string(s, i) ==
    LET e == StringBody(s, i + 1)
    IN  IF At(s, i) = "\"" /\ e >= 0 THEN e - i + 1 ELSE -1

\* (?![0-9]):?[+\-*=%?!.$_~&^<>@0-9a-zA-Z]+
pat_simple_symbol(s, i) ==
    LET c == IF At(s, i) = ":" THEN 1 ELSE 0
        n == Span(s, i + c, SymbolChars, FALSE)
    IN  IF At(s, i) \notin Digits /\ n >= 1 THEN c + n ELSE -1

\* \|[^|\\]*\|
pat_quoted_symbol(s, i) ==
    LET n == Span(s, i + 1, {"|", "\\"}, TRUE)
    IN  IF At(s, i) = "|" /\ At(s, i + 1 + n) = "|" THEN n + 2 ELSE -1

pattern(kind, s, i) ==
    CASE kind = "numeral"       -> pat_numeral(s, i)
      [] kind = "decimal"       -> pat_decimal(s, i)
      [] kind = "hexadecimal"   -> pat_radix(s, i, "x", HexDigits)
      [] kind = "binary"        -> pat_radix(s, i, "b", BinDigits)
      [] kind = "string"        -> pat_string(s, i)
      [] kind = "simple_symbol" -> pat_simple_symbol(s, i)
      [] kind = "quoted_symbol" -> pat_quoted_symbol(s, i)

----------------------------------------------------------------------------
(* Specific parser builders *)
\* Program ::= (blankline | Comment | SExpr)+
\* SExpr   ::= '(' Expr* ')'
\* Expr    ::= blankline | Comment | SExpr | atom

lparen(s) == regex(re_paren(s, "("), s, None)

rparen(s) == regex(re_paren(s, ")"), s, None)

\* [";", m.group(0).strip()[1:]]
comment(s) ==
    LET m == re_comment(s)
    IN  regex(m, s, ListV(<<StrV(<<";">>), StrV(Drop(Strip(SubSeq(s, 1, m)), 1))>>))

\* m.group(0) or ""
raw_comment(s) ==
    LET m == re_raw_comment(s) IN regex(m, s, StrV(SubSeq(s, 1, m)))

\* m.group(0).count("\n") - 2
blankline(s) ==
    LET m == re_blankline(s)
    IN  regex(m, s, IntV(Count(SubSeq(s, 1, m), "\n") - 2))

\* parse_atom(pattern): regex(r"^\s*(" + pattern + r")", m.group(1))
parse_atom(kind, s) ==
    LET w == Span(s, 1, Whitespace, FALSE)
        n == pattern(kind, s, w + 1)
    IN  regex(IF n >= 0 THEN w + n ELSE -1, s, StrV(SubSeq(s, w + 1, w + n)))

AtomKinds ==
    <<"numeral", "decimal", "hexadecimal", "binary", "string",
      "simple_symbol", "quoted_symbol">>

any_atom(s) == choice(AtomKinds, s)

atom(s) == seq(<<"any_atom", "raw_comment">>, s)

\* The alternatives that sexpr() repeats.
expr_alternatives == <<"blankline", "comment", "sexpr", "atom">>

expr(s) == choice(expr_alternatives, s)

sexpr(s) == seq(<<"lparen", "exprs", "rparen", "raw_comment">>, s)

\* A repetition that also tries the zero-width raw_comment parser.
program_alternatives_raw_comment ==
    <<"blankline", "comment", "sexpr", "raw_comment">>

\* The alternatives that program() repeats.
program_alternatives == <<"blankline", "comment", "sexpr">>

\* The parser program() repeats: choice(blankline(), comment(), sexpr()).
paragraph(s) == choice(program_alternatives, s)

program(s) == oneOrMore("paragraph", s)

Apply(parser, s) ==
    CASE parser = "lparen"      -> lparen(s)
      [] parser = "rparen"      -> rparen(s)
      [] parser = "comment"     -> comment(s)
      [] parser = "raw_comment" -> raw_comment(s)
      [] parser = "blankline"   -> blankline(s)
      [] parser = "any_atom"    -> any_atom(s)
      [] parser = "atom"        -> atom(s)
      [] parser = "expr"        -> expr(s)
      [] parser = "exprs"       -> zeroOrMore("expr", s)
      [] parser = "sexpr"       -> sexpr(s)
      [] parser = "paragraph"   -> paragraph(s)
      [] OTHER                  -> parse_atom(parser, s)

----------------------------------------------------------------------------
(* Formatter *)

\* "".join(parts) for a sequence of texts
RECURSIVE Concat(_)
Concat(parts) ==
    IF parts = <<>> THEN <<>> ELSE Head(parts) \o Concat(Tail(parts))

\* sep.join(parts)
RECURSIVE Join(_, _)
Join(sep, parts) ==
    IF parts = <<>> THEN <<>>
    ELSE IF Len(parts) = 1 THEN Head(parts)
         ELSE Head(parts) \o sep \o Join(sep, Tail(parts))

\* len(xs) of a str or a list
len(xs) == Len(xs.v)

isblankline(xs) == xs.t = "int"

\* xs[0] == ";" holds of a list whose first element is the str ";" and of a
\* str whose first character is ";".
iscomment(xs) ==
    /\ ~isblankline(xs)
    /\ len(xs) = 2
    /\ \/ xs.t = "list" /\ xs.v[1].t = "str" /\ xs.v[1].v = <<";">>
       \/ xs.t = "str" /\ xs.v[1] = ";"

isatom(xs) == xs.t = "list" /\ len(xs) \in {1, 2} /\ xs.v[1].t = "str"

issexpr(xs) == xs.t = "list" /\ (len(xs) = 0 \/ xs.v[1].t = "list")

format_atom(xs) == Concat([i \in 1..len(xs) |-> xs.v[i].v])

decode_attached_comment(xs) ==
    IF len(xs) = 0
    THEN [xs |-> ListV(<<>>), attached_comment |-> <<>>]
    ELSE [xs |-> xs.v[1],
          attached_comment |-> IF len(xs) = 2 THEN xs.v[2].v ELSE <<>>]

RECURSIVE format_term_oneline(_)

\* The loop of format_term_oneline over the children from the i-th on: the
\* one-line texts of the children, or ok = FALSE at the first child that has
\* none.
RECURSIVE oneline_children(_, _, _)
oneline_children(xs0, i, terms) ==
    IF i > Len(xs0)
    THEN [ok |-> TRUE, s |-> <<"(">> \o Join(<<" ">>, terms) \o <<")">>]
    ELSE LET r == format_term_oneline(xs0[i])
         IN  IF ~r.ok
             THEN [ok |-> FALSE, s |-> <<>>]
             ELSE oneline_children(xs0, i + 1, Append(terms, r.s))

format_term_oneline(xs) ==
    IF isblankline(xs) THEN [ok |-> FALSE, s |-> <<>>]
    ELSE IF iscomment(xs) THEN [ok |-> FALSE, s |-> <<>>]
    ELSE LET d == decode_attached_comment(xs)
         IN  IF isatom(xs)
             THEN [ok |-> d.attached_comment = <<>>, s |-> format_atom(xs)]
             ELSE IF d.attached_comment # <<>>
                  THEN [ok |-> FALSE, s |-> <<>>]
                  ELSE oneline_children(d.xs.v, 1, <<>>)

\* The one-line test with an inclusive comparison, `<=` for `<`.
small_term_inclusive(xs) ==
    LET r == format_term_oneline(ListV(<<xs>>))
    IN  r.ok /\ Len(r.s) <= SMALL_EXPRESSION_MAX_LENGTH

\* Whether format_term renders the list with children xs on one line:
\* `ok and len(oneline) < SMALL_EXPRESSION_MAX_LENGTH`.
small_term(xs) ==
    LET r == format_term_oneline(ListV(<<xs>>))
    IN  r.ok /\ Len(r.s) < SMALL_EXPRESSION_MAX_LENGTH

\* Whether a line of str.splitlines() starts at position i of s.  (Python
\* also breaks lines at the control characters \v, \x1c, \x1d, \x1e and
\* \x85 and at the Unicode line and paragraph separators, which no text of
\* this model holds.)
LineStart(s, i) ==
    i > 1 /\ (s[i - 1] \in {"\n", "\f"} \/ (s[i - 1] = "\r" /\ s[i] # "\n"))

\* The loop over s.splitlines(keepends=True): every line but the first, and
\* but a line that is just "\n", is moved in by SPACES_PER_INDENT.  The
\* character at position i of s lands SPACES_PER_INDENT places further right
\* for every such line that starts at or before i.
indented(s) ==
    LET starts == {i \in 1..Len(s) : LineStart(s, i) /\ s[i] # "\n"}
        place(i) == i + SPACES_PER_INDENT * Cardinality({p \in starts : p <= i})
        total == Len(s) + SPACES_PER_INDENT * Cardinality(starts)
    IN  [k \in 1..total |->
            IF \E i \in 1..Len(s) : place(i) = k
            THEN s[CHOOSE i \in 1..Len(s) : place(i) = k]
            ELSE " "]

RECURSIVE format_term(_, _)

\* The loop of format_term over the children from the i-th on.
RECURSIVE format_children(_, _)
format_children(xs, i) ==
    IF i > Len(xs) THEN <<>>
    ELSE LET x == xs[i]
         IN  (IF i = 1 /\ iscomment(x) THEN <<"\n">> ELSE <<>>)
             \o format_term(x, i = 1)
             \o (IF \/ i # Len(xs)
                    \/ iscomment(x)
                    \/ ((isatom(x) \/ issexpr(x)) /\ len(x) = 2)
                 THEN <<"\n">>
                 ELSE <<>>)
             \o format_children(xs, i + 1)

format_term(xs, first) ==
    IF isblankline(xs) THEN Repeat("\n", xs.v)
    ELSE IF iscomment(xs) THEN format_atom(xs)
    ELSE IF isatom(xs) THEN format_atom(xs)
    ELSE LET d == decode_attached_comment(xs)
         IN  IF small_term(d.xs)
             THEN format_term_oneline(ListV(<<d.xs>>)).s \o d.attached_comment
             ELSE indented(
                    <<"(">>
                    \o (IF ~iscomment(d.xs.v[1]) /\ ~isatom(d.xs.v[1])
                        THEN <<"\n">>
                        ELSE <<>>)
                    \o format_children(d.xs.v, 1)
                    \o <<")">>
                    \o d.attached_comment)

format_terms(xs) ==
    Concat([i \in 1..Len(xs) |-> format_term(xs[i], FALSE) \o <<"\n">>])

ErrorPrefix ==
    <<"s", "m", "t", "f", "m", "t", ":", " ", "e", "r", "r", "o", "r", ":",
      " ", "n", "o", "t", " ", "f", "o", "r", "m", "a", "t", "t", "i", "n",
      "g", ",", " ", "l", "e", "f", "t", "o", "v", "e", "r", ":", " ">>

\* The test of the parse without its look at the leftover.
not_formatting_ignoring_leftover(succ, leftover, terms) ==
    \/ ~succ
    \/ terms.t = "none"

\* format_lisp's test of the parse: `not succ or (leftover and not
\* leftover.isspace()) or terms is None`.
not_formatting(succ, leftover, terms) ==
    \/ ~succ
    \/ (leftover # <<>> /\ ~IsSpace(leftover))
    \/ terms.t = "none"

\* format_lisp as a function: the text returned, or the exception raised.
format_lisp(s) ==
    LET r == program(s)
    IN  IF not_formatting(r.succ, r.rest, r.value)
        THEN [raised |-> TRUE, text |-> ErrorPrefix \o Strip(r.rest)]
        ELSE [raised |-> FALSE, text |-> format_terms(r.value.v)]

----------------------------------------------------------------------------
(* format_lisp as a state machine: the text is read; program()'s repetition *)
(* runs one paragraph a step; when no paragraph parses any more,            *)
(* format_lisp raises or formats what was parsed.  The caller then formats  *)
(* the output again.                                                        *)

\* The result of oneOrMore at the end of the repetition.
succ == values # <<>>

leftover == cur_s

terms == IF succ THEN ListV(values) ELSE None

\* main reads the whole text, one of S, and calls format_lisp on it.
Read(S) ==
    /\ pc = "start"
    /\ \E s \in S :
           /\ source' = s
           /\ input' = s
           /\ cur_s' = s
    /\ pc' = "parse"
    /\ UNCHANGED <<pass, values, output, message, terms1, out1>>

ProgramStep ==
    /\ pc = "parse"
    /\ LET r == paragraph(cur_s)
       IN  /\ r.succ
           /\ cur_s' = r.rest
           /\ values' = Append(values, r.value)
    /\ UNCHANGED <<source, input, pass, pc, output, message, terms1, out1>>

FormatRaise ==
    /\ pc = "parse"
    /\ ~paragraph(cur_s).succ
    /\ not_formatting(succ, leftover, terms)
    /\ pc' = "raised"
    /\ message' = ErrorPrefix \o Strip(leftover)
    /\ UNCHANGED <<source, input, pass, cur_s, values, output, terms1, out1>>

FormatReturn ==
    /\ pc = "parse"
    /\ ~paragraph(cur_s).succ
    /\ ~not_formatting(succ, leftover, terms)
    /\ pc' = "returned"
    /\ output' = format_terms(values)
    /\ terms1' = IF pass = 1 THEN values ELSE terms1
    /\ out1' = IF pass = 1 THEN output' ELSE out1
    /\ UNCHANGED <<source, input, pass, cur_s, values, message>>

FormatAgain ==
    /\ pc = "returned"
    /\ pass = 1
    /\ pass' = 2
    /\ pc' = "parse"
    /\ input' = output
    /\ cur_s' = output
    /\ values' = <<>>
    /\ output' = <<>>
    /\ UNCHANGED <<source, message, terms1, out1>>

Format == ProgramStep \/ FormatRaise \/ FormatReturn \/ FormatAgain

Init ==
    /\ source = <<>>
    /\ input = <<>>
    /\ pass = 1
    /\ pc = "start"
    /\ cur_s = <<>>
    /\ values = <<>>
    /\ output = <<>>
    /\ message = <<>>
    /\ terms1 = <<>>
    /\ out1 = <<>>

\* The texts of length at most n over the alphabet A.
Texts(A, n) == UNION {[1..k -> A] : k \in 0..n}

MaxLen == 5

\* Texts of lists, comments, blank lines and a symbol.
Sigma == {"(", ")", ";", " ", "\n", "a"}

Next == Read(Texts(Sigma, MaxLen)) \/ Format

Spec == Init /\ [][Next]_vars

\* Texts of atoms: numerals, decimals, symbols, keywords, strings.
AtomSigma == {"(", ")", " ", "0", "1", ".", "a", ":", "\""}

NextAtoms == Read(Texts(AtomSigma, MaxLen)) \/ Format

SpecAtoms == Init /\ [][NextAtoms]_vars

\* Texts of lists, comments and line breaks only, two characters longer.
CommentSigma == {"(", ")", ";", "\n"}

NextComments == Read(Texts(CommentSigma, MaxLen + 2)) \/ Format

SpecComments == Init /\ [][NextComments]_vars

\* Texts about as wide as the column limit: a short skeleton of lists and
\* atoms with one long run of the letter a put in at some position, so that
\* the one-line forms have lengths just under, at and just over the limit.
MaxSkeleton == 4

WideSigma == {"(", ")", " ", "a"}

Pads ==
    {SMALL_EXPRESSION_MAX_LENGTH - MaxSkeleton + k : k \in {-1, 0, 1}}

WideTexts ==
    UNION {{SubSeq(sk, 1, p) \o Repeat("a", n) \o Drop(sk, p) :
                p \in 0..Len(sk), n \in Pads} :
           sk \in Texts(WideSigma, MaxSkeleton)}

NextWide == Read(WideTexts) \/ Format

SpecWide == Init /\ [][NextWide]_vars

----------------------------------------------------------------------------
(* What the claims speak of *)

Returned1 == pass = 1 /\ pc = "returned"

Finished2 == pass = 2 /\ pc \in {"returned", "raised"}

NoBreak(s) == \A i \in 1..Len(s) : s[i] # "\n"

\* A text the raw_comment parser yields: blanks, then ";".
IsRaw(c) == At(c, Span(c, 1, Blanks, FALSE) + 1) = ";"

\* The text of a raw comment after its ";".
RawText(c) == Drop(c, Span(c, 1, Blanks, FALSE) + 1)

Leaf(kind, text, attached) ==
    [kind |-> kind, text |-> text, kids |-> <<>>, attached |-> attached]

\* The syntax tree the grammar means by a parsed value: an atom with its
\* attached comment, a comment, or a list with its children and its attached
\* comment.  BlankLine markers are left out.
RECURSIVE Tree(_)
RECURSIVE Trees(_, _)
Tree(x) ==
    IF iscomment(x) THEN Leaf("comment", x.v[2].v, <<>>)
    ELSE IF x.v = <<>> THEN Leaf("list", <<>>, <<>>)
    ELSE IF x.v[1].t = "str"
         THEN IF IsRaw(x.v[1].v)
              THEN Leaf("list", <<>>, x.v[1].v)
              ELSE Leaf("atom", x.v[1].v,
                        IF Len(x.v) = 2 THEN x.v[2].v ELSE <<>>)
         ELSE [kind |-> "list", text |-> <<>>,
               kids |-> Trees(x.v[1].v, 1),
               attached |-> IF Len(x.v) = 2 THEN x.v[2].v ELSE <<>>]

Trees(xs, i) ==
    IF i > Len(xs) THEN <<>>
    ELSE (IF xs[i].t = "int" THEN <<>> ELSE <<Tree(xs[i])>>) \o Trees(xs, i + 1)

Token(kind, text) == [kind |-> kind, text |-> text]

\* The atoms, comments and blank-line counts of parsed values, in order.
RECURSIVE Tokens(_, _)
Tokens(xs, i) ==
    IF i > Len(xs) THEN <<>>
    ELSE LET x == xs[i]
         IN  (CASE x.t = "int" -> <<Token("blank", Repeat("\n", x.v))>>
                [] x.t = "str" -> IF IsRaw(x.v)
                                  THEN <<Token("comment", RawText(x.v))>>
                                  ELSE <<Token("atom", x.v)>>
                [] OTHER       -> IF iscomment(x)
                                  THEN <<Token("comment", x.v[2].v)>>
                                  ELSE Tokens(x.v, 1))
             \o Tokens(xs, i + 1)

\* The blank lines the BlankLine markers of parsed values stand for: a
\* marker of n records n + 2 line breaks, the first of which ends the line
\* of the term before it.
RECURSIVE MarkedBlankLines(_, _)
MarkedBlankLines(xs, i) ==
    IF i > Len(xs) THEN 0
    ELSE (CASE xs[i].t = "int"  -> xs[i].v + 1
            [] xs[i].t = "list" -> MarkedBlankLines(xs[i].v, 1)
            [] OTHER            -> 0)
         + MarkedBlankLines(xs, i + 1)

\* The lines of s, ended by a line break, that hold white space only.
BlankLines(s) ==
    Cardinality({i \in 1..Len(s) :
        /\ s[i] = "\n"
        /\ LET b == SpanBack(s, i - 1, Whitespace \ {"\n"})
           IN  i - 1 - b = 0 \/ s[i - 1 - b] = "\n"})

\* The texts after the first ";" of each line of s that has one, up to the
\* end of the line.
RECURSIVE CommentTexts(_, _)
CommentTexts(s, i) ==
    LET j == i + Span(s, i, {";"}, TRUE)
        e == j + Span(s, j + 1, {"\n"}, TRUE)
    IN  IF j > Len(s) THEN <<>>
        ELSE <<SubSeq(s, j + 1, e)>> \o CommentTexts(s, e + 1)

\* Whether a standalone comment, a BlankLine marker, or an atom or a list
\* with an attached comment stands among xs or below.
RECURSIVE HasCommentOrBlank(_, _)
HasCommentOrBlank(xs, i) ==
    /\ i <= Len(xs)
    /\ \/ xs[i].t = "int"
       \/ xs[i].t = "str" /\ IsRaw(xs[i].v)
       \/ xs[i].t = "list" /\ (iscomment(xs[i]) \/ HasCommentOrBlank(xs[i].v, 1))
       \/ HasCommentOrBlank(xs, i + 1)

\* The children of a parsed list (none for the empty list).
Children(x) ==
    IF x.t # "list" \/ x.v = <<>> \/ x.v[1].t # "list" THEN <<>> ELSE x.v[1].v

\* The lists format_term is called on, each with the number of expanded
\* lists around it: the top-level lists, and the lists among the children
\* of a list that is not rendered on one line.
RECURSIVE Visited(_, _, _)
Visited(xs, i, depth) ==
    IF i > Len(xs) THEN <<>>
    ELSE LET x == xs[i]
         IN  (IF isblankline(x) \/ iscomment(x) \/ isatom(x) THEN <<>>
              ELSE <<[list |-> x, depth |-> depth]>>
                   \o (IF small_term(decode_attached_comment(x).xs)
                       THEN <<>>
                       ELSE Visited(Children(x), 1, depth + 1)))
             \o Visited(xs, i + 1, depth)

OneLine(x) == format_term_oneline(ListV(<<decode_attached_comment(x).xs>>))

Attached(x) == decode_attached_comment(x).attached_comment

\* A list of one atom without a comment: its expanded form has no line
\* break and is the text of its one-line form.
SingleAtom(x) ==
    Len(Children(x)) = 1 /\ isatom(Children(x)[1]) /\ len(Children(x)[1]) = 1

----------------------------------------------------------------------------
(* The claims *)

\* C1: formatting the output of format_lisp again succeeds and returns the
\* same text: format_lisp(format_lisp(s)) = format_lisp(s).
C1_Idempotent == Finished2 => (pc = "returned" /\ output = out1)

\* C2: the atoms, comments and blank-line counts parsed from the output of
\* format_lisp are those parsed from its input, in the same order.
C2_ContentPreserved ==
    (pass = 2 /\ pc = "returned") => Tokens(values, 1) = Tokens(terms1, 1)

\* C3: every run of blank lines recorded by a BlankLine marker appears in
\* the output: the output has as many blank lines as the markers stand for.
C3_BlankLinesKept ==
    Returned1 => BlankLines(output) = MarkedBlankLines(terms1, 1)

\* C4: the text after the ";" of every comment of an accepted input, up to
\* the end of its line, is the text after the ";" of the same comment in the
\* output, white space included.
C4_CommentsVerbatim ==
    Returned1 => CommentTexts(output, 1) = CommentTexts(source, 1)

C6_RaisesOrFormats ==
    LET r      == program(input)
        reject == ~r.succ \/ \E i \in 1..Len(r.rest) : r.rest[i] \notin Whitespace
    IN  /\ pc \in {"start", "parse"} => (output = <<>> /\ message = <<>>)
        /\ pc = "raised" =>
               /\ reject
               /\ message = ErrorPrefix \o Strip(r.rest)
               /\ output = <<>>
        /\ pc = "returned" =>
               /\ ~reject
               /\ message = <<>>
               /\ output = format_terms(r.value.v)
        /\ (pc \in {"returned", "raised"} /\ Count(input, "\n") < 2
              /\ \A i \in 1..Len(input) : input[i] \in Whitespace) =>
               pc = "raised"

\* C6's case: the parse made progress and left text behind, and format_lisp
\* raised with that text in the message.
C6_Witness ==
    /\ pc = "raised"
    /\ values # <<>>
    /\ Len(message) > Len(ErrorPrefix)

\* A token of one of the seven kinds of atom: a text one of the patterns
\* matches whole.
IsAtomToken(tok) ==
    \E k \in 1..Len(AtomKinds) : pattern(AtomKinds[k], tok, 1) = Len(tok)

\* C7: a token of one of the atom kinds that stands alone in a list is
\* scanned as one Atom whose text is the whole token, and is emitted as it
\* stands, without white space put into it.
C7_WholeToken ==
    (/\ pass = 1
     /\ pc \in {"returned", "raised"}
     /\ Len(source) >= 3
     /\ source[1] = "("
     /\ source[Len(source)] = ")"
     /\ IsAtomToken(SubSeq(source, 2, Len(source) - 1))) =>
        LET tok == SubSeq(source, 2, Len(source) - 1)
        IN  /\ pc = "returned"
            /\ terms1 = <<ListV(<<ListV(<<ListV(<<StrV(tok)>>)>>)>>)>>
            /\ output = <<"(">> \o tok \o <<")", "\n">>

\* C8: a top-level list below which a standalone comment, a BlankLine
\* marker, or an atom or list with an attached comment stands is not
\* rendered on one line: its text has a line break.
C8_NotOneLine ==
    Returned1 =>
        \A k \in 1..Len(terms1) :
            (/\ ~isblankline(terms1[k])
             /\ ~iscomment(terms1[k])
             /\ HasCommentOrBlank(Children(terms1[k]), 1)) =>
                ~NoBreak(format_term(terms1[k], FALSE))

\* C9: the output of format_lisp is accepted by format_lisp and parses to
\* the same tree of lists, atoms, comments and attached comments.  (Stated
\* of the inputs without BlankLine markers, whose fate is C3's.)
C9_SameTree ==
    (Finished2 /\ MarkedBlankLines(terms1, 1) = 0) =>
        (pc = "returned" /\ Trees(values, 1) = Trees(terms1, 1))

\* C10: each alternative under repetition consumes at least one character
\* when it succeeds, so that a repetition has run at most once for each
\* character it consumed and ends: program()'s repetition step by step, and
\* the repetitions of sexpr() and program() started at any cursor.
C10_Terminates ==
    /\ \A p \in {expr_alternatives[k] : k \in DOMAIN expr_alternatives}
               \cup {program_alternatives[k] : k \in DOMAIN program_alternatives} :
           Apply(p, cur_s).succ => Len(Apply(p, cur_s).rest) < Len(cur_s)
    /\ Len(values) + Len(cur_s) <= Len(input)
    /\ LET r == zeroOrMore("expr", cur_s)
       IN  r.succ /\ Len(r.value.v) + Len(r.rest) <= Len(cur_s)
    /\ LET r == program(cur_s)
       IN  r.succ => Len(r.value.v) + Len(r.rest) <= Len(cur_s)

\* C10's case: the repetition ran twice or more, over a list with children
\* of its own, and the parse ended.
C10_Witness ==
    /\ pc \in {"returned", "raised"}
    /\ Len(values) >= 2
    /\ \E k \in 1..Len(values) : Children(values[k]) # <<>>

============================================================================
